---- MODULE Spec2Model ----
(***************************************************************************)
(* Model of scripts/dev/extract-supabase-key.py: the backup of .env.local, *)
(* the optional Selenium extraction, the manual extraction loop, the key   *)
(* format validation and the rewrite of the environment file.              *)
(*                                                                         *)
(* Texts are sequences of characters.  A character is a one-element token; *)
(* the 30-character literal NEXT_PUBLIC_SUPABASE_ANON_KEY= is the single   *)
(* token KEYNAME (the literal has no proper border, it holds one '=' and   *)
(* that is its last character, so every text splits in exactly one way     *)
(* into occurrences of the literal and other characters).                  *)
(***************************************************************************)
EXTENDS Integers, Sequences, FiniteSets, TLC

VARIABLES
    envFile,      \* bytes of .env.local on disk, or Missing
    backups,      \* timestamp |-> bytes of .env.local.backup.<timestamp>
    clock,        \* int(time.time())
    pc,           \* position of the script
    api_key,      \* main's api_key (None before an extraction returned)
    found,        \* try_selenium_extraction's local api_key
    pending,      \* exception being propagated, or None
    exitCode,     \* exit status of the process, or None while it runs
    driver,       \* "none" | "open": the browser session
    selector,     \* index of the selector the scan is at
    runs,         \* runs of the script started so far
    startContent, \* history: envFile when the run started
    runBackup,    \* history: << timestamp >> of the backup this run created, or << >>
    written,      \* history: the run wrote .env.local
    lastKey,      \* history: key given to the last update_env_file
    prevFile,     \* history: envFile before the last update_env_file
    selFailure,   \* history: failure met inside try_selenium_extraction
    manualEntered,\* history: the run entered manual_extraction
    ending,       \* history: why the run ended
    candidate,    \* input of validate_api_key (validation harness)
    verdict       \* its result (validation harness)

vars == << envFile, backups, clock, pc, api_key, found, pending, exitCode,
           driver, selector, runs, startContent, runBackup, written,
           lastKey, prevFile, selFailure, manualEntered, ending, candidate,
           verdict >>

----------------------------------------------------------------------------
(* Characters                                                              *)

LF == "LF"
CR == "CR"
SP == "SP"
DOT == "."
QUOTE == "QUOTE"
BACKSLASH == "BACKSLASH"
KEYNAME == "NEXT_PUBLIC_SUPABASE_ANON_KEY="

None == "None"
Missing == "Missing"

\* len(api_key) < 100
MinKeyLen == 100

\* Characters str.strip / str.rstrip remove.
IsSpace(c) == c \in {SP, LF, CR}

\* ASCII letters of the model's alphabet (KEYNAME starts with the letter N).
IsAsciiLetter(c) == c \in {"e", "y", "J", "x", "A", "n", KEYNAME}

----------------------------------------------------------------------------
(* str operations                                                          *)

startswith(s, p) == Len(s) >= Len(p) /\ SubSeq(s, 1, Len(p)) = p

contains(s, c) == \E i \in DOMAIN s : s[i] = c

FirstIndex(s, c) == CHOOSE i \in DOMAIN s : s[i] = c /\ \A j \in 1..(i-1) : s[j] # c

RECURSIVE split(_, _)
split(s, sep) ==
    IF ~contains(s, sep) THEN << s >>
    ELSE LET i == FirstIndex(s, sep)
         IN  << SubSeq(s, 1, i - 1) >> \o split(SubSeq(s, i + 1, Len(s)), sep)

RECURSIVE rstrip(_)
rstrip(s) ==
    IF s # << >> /\ IsSpace(s[Len(s)]) THEN rstrip(SubSeq(s, 1, Len(s) - 1)) ELSE s

RECURSIVE lstrip(_)
lstrip(s) ==
    IF s # << >> /\ IsSpace(s[1]) THEN lstrip(Tail(s)) ELSE s

strip(s) == lstrip(rstrip(s))

----------------------------------------------------------------------------
(* validate_api_key                                                        *)

MsgEmpty == "API key is empty"
MsgPrefix == "JWT tokens should start with 'eyJ'"
MsgDots == "JWT tokens should contain dots"
MsgParts == "JWT tokens should have exactly 3 parts separated by dots"
MsgShort == "API key seems too short"
MsgValid == "Valid"

EYJ == << "e", "y", "J" >>

validate_api_key_short(key) ==
    IF key = << >> THEN << FALSE, MsgEmpty >>
    ELSE IF ~startswith(key, EYJ) THEN << FALSE, MsgPrefix >>
    ELSE IF ~contains(key, DOT) THEN << FALSE, MsgDots >>
    ELSE IF Len(split(key, DOT)) # 3 THEN << FALSE, MsgParts >>
    ELSE IF Len(key) <= MinKeyLen THEN << FALSE, MsgShort >>
    ELSE << TRUE, MsgValid >>

validate_api_key_lenfirst(key) ==
    IF key = << >> THEN << FALSE, MsgEmpty >>
    ELSE IF ~startswith(key, EYJ) THEN << FALSE, MsgPrefix >>
    ELSE IF ~contains(key, DOT) THEN << FALSE, MsgDots >>
    ELSE IF Len(key) < MinKeyLen THEN << FALSE, MsgShort >>
    ELSE IF Len(split(key, DOT)) # 3 THEN << FALSE, MsgParts >>
    ELSE << TRUE, MsgValid >>

validate_api_key(key) ==
    IF key = << >> THEN << FALSE, MsgEmpty >>
    ELSE IF ~startswith(key, EYJ) THEN << FALSE, MsgPrefix >>
    ELSE IF ~contains(key, DOT) THEN << FALSE, MsgDots >>
    ELSE IF Len(split(key, DOT)) # 3 THEN << FALSE, MsgParts >>
    ELSE IF Len(key) < MinKeyLen THEN << FALSE, MsgShort >>
    ELSE << TRUE, MsgValid >>

----------------------------------------------------------------------------
(* Path.read_text / Path.write_text (text mode, newline=None, POSIX)       *)

\* Reading translates "\r\n" and a lone "\r" to "\n" (universal newlines).
RECURSIVE read_text(_)
read_text(bytes) ==
    IF ~contains(bytes, CR) THEN bytes
    ELSE LET i == FirstIndex(bytes, CR)
             j == IF i < Len(bytes) /\ bytes[i + 1] = LF THEN i + 2 ELSE i + 1
         IN  SubSeq(bytes, 1, i - 1) \o << LF >> \o read_text(SubSeq(bytes, j, Len(bytes)))

\* os.linesep
linesep == << LF >>

\* Writing translates every "\n" to os.linesep.
RECURSIVE write_text(_)
write_text(text) ==
    IF ~contains(text, LF) THEN text
    ELSE LET i == FirstIndex(text, LF)
         IN  SubSeq(text, 1, i - 1) \o linesep \o write_text(SubSeq(text, i + 1, Len(text)))

----------------------------------------------------------------------------
(* re.search / re.sub with pattern NEXT_PUBLIC_SUPABASE_ANON_KEY=.*        *)

\* ".*" matches the empty string, so the pattern matches wherever the literal is.
re_search(content) == contains(content, KEYNAME)

\* Length of the longest prefix of s that "." matches: up to the first "\n".
DotStarLen(s) == IF contains(s, LF) THEN FirstIndex(s, LF) - 1 ELSE Len(s)

\* The replacement template as re.sub expands it: "\\" is one backslash, "\n"
\* a newline, a backslash before another ASCII letter is re.error ("bad
\* escape"), a backslash before any other character stays as it is.
RECURSIVE parse_template(_)
parse_template(t) ==
    IF ~contains(t, BACKSLASH) THEN [ok |-> TRUE, text |-> t]
    ELSE LET i == FirstIndex(t, BACKSLASH)
             before == SubSeq(t, 1, i - 1)
         IN  IF i = Len(t) THEN [ok |-> FALSE, text |-> << >>]
             ELSE LET c == t[i + 1]
                      r == parse_template(SubSeq(t, i + 2, Len(t)))
                  IN  IF c = BACKSLASH
                      THEN [ok |-> r.ok, text |-> before \o << BACKSLASH >> \o r.text]
                      ELSE IF c = "n"
                      THEN [ok |-> r.ok, text |-> before \o << LF >> \o r.text]
                      ELSE IF IsAsciiLetter(c) THEN [ok |-> FALSE, text |-> << >>]
                      ELSE [ok |-> r.ok, text |-> before \o << BACKSLASH, c >> \o r.text]

\* Every non-overlapping match, leftmost first, replaced by repl.
RECURSIVE re_sub(_, _)
re_sub(repl, s) ==
    IF ~contains(s, KEYNAME) THEN s
    ELSE LET i == FirstIndex(s, KEYNAME)
             rest == SubSeq(s, i + 1, Len(s))
             n == DotStarLen(rest)
         IN  SubSeq(s, 1, i - 1) \o repl \o re_sub(repl, SubSeq(rest, n + 1, Len(rest)))

----------------------------------------------------------------------------
(* update_env_file                                                         *)

\* f'NEXT_PUBLIC_SUPABASE_ANON_KEY="{new_api_key}"'
replacement(new_api_key) == << KEYNAME, QUOTE >> \o new_api_key \o << QUOTE >>

\* The bytes update_env_file leaves in .env.local, and the exception it raises
\* (re.error from the template, before anything is written).
update_env_file(bytes, new_api_key) ==
    LET content == read_text(bytes)
        repl == replacement(new_api_key)
    IN  IF re_search(content)
        THEN LET tpl == parse_template(repl)
             IN  IF tpl.ok
                 THEN [raised |-> None, file |-> write_text(re_sub(tpl.text, content))]
                 ELSE [raised |-> "re.error", file |-> bytes]
        ELSE [raised |-> None,
              file |-> write_text(rstrip(content) \o << LF >> \o repl \o << LF >>)]

----------------------------------------------------------------------------
(* Bounds and input sets                                                   *)

\* Longest tail of '.' and 'x' after a candidate's head.
MaxTail == 4
\* Longest environment file of the update harness, in characters.
MaxFileLen == 4
\* Successive updates of the update harness.
MaxUpdates == 2

Pad(n) == [i \in 1..n |-> "x"]

SeqsUpTo(S, n) == UNION { [1..k -> S] : k \in 0..n }

Heads == { << >>, << SP >>, << "e" >>, << "e", "y" >>, EYJ, << "e", "y", "x" >>,
           << "x", "y", "J" >>, << DOT, "e", "y", "J" >>, << "J", "y", "e" >> }

PadSizes == { 0, MinKeyLen - 3 - MaxTail - 1, MinKeyLen - 3 - MaxTail, MinKeyLen }

\* Candidate strings: a head, a tail of dots and letters, a run of letters.
Candidates == { h \o t \o Pad(n) : h \in Heads, t \in SeqsUpTo({DOT, "x"}, MaxTail),
                                  n \in PadSizes }

\* Two keys validate_api_key accepts, of 100 and 101 characters.
Key1 == << "e", "y", "J", DOT, "x", DOT >> \o Pad(MinKeyLen - 6)
Key2 == << "e", "y", "J", DOT, DOT, "x" >> \o Pad(MinKeyLen - 5)
UpdateKeys == { Key1, Key2 }

\* Environment files of the update harness (text with "\n" line ends).
UpdateFiles == SeqsUpTo({KEYNAME, "A", SP, LF}, MaxFileLen)

----------------------------------------------------------------------------
(* Harness state shared by the specifications                              *)

HistoryInit ==
    /\ startContent = None /\ runBackup = << >> /\ written = FALSE
    /\ lastKey = None /\ prevFile = None /\ selFailure = None
    /\ manualEntered = FALSE /\ ending = None

RunInit ==
    /\ api_key = None /\ found = None /\ pending = None /\ exitCode = None
    /\ driver = "none" /\ selector = 0

----------------------------------------------------------------------------
(* Validation harness: validate_api_key applied to every candidate         *)

InitValidate ==
    /\ candidate \in Candidates /\ verdict = None /\ pc = "validate"
    /\ envFile = Missing /\ backups = << >> /\ clock = 0 /\ runs = 0
    /\ RunInit /\ HistoryInit

Validate ==
    /\ pc = "validate"
    /\ verdict' = validate_api_key(candidate)
    /\ pc' = "validated"
    /\ UNCHANGED << envFile, backups, clock, api_key, found, pending, exitCode,
                    driver, selector, runs, startContent, runBackup,
                    written, lastKey, prevFile, selFailure, manualEntered,
                    ending, candidate >>

NextValidate == Validate

SpecValidate == InitValidate /\ [][NextValidate]_vars

----------------------------------------------------------------------------
(* Update harness: update_env_file applied repeatedly to every file        *)

InitUpdate ==
    /\ envFile \in UpdateFiles /\ pc = "update" /\ runs = 0
    /\ candidate = None /\ verdict = None /\ backups = << >> /\ clock = 0
    /\ RunInit /\ HistoryInit

\* One call of update_env_file(key): read, substitute or append, write back.
UpdateEnvFile(key, next, failed) ==
    LET r == update_env_file(envFile, key)
    IN  /\ prevFile' = envFile
        /\ lastKey' = key
        /\ envFile' = r.file
        /\ written' = (r.raised = None)
        /\ pending' = r.raised
        /\ pc' = IF r.raised = None THEN next ELSE failed

UpdateStep ==
    /\ pc = "update"
    /\ runs < MaxUpdates
    /\ \E key \in UpdateKeys : UpdateEnvFile(key, "update", "raised")
    /\ runs' = runs + 1
    /\ UNCHANGED << backups, clock, api_key, found, exitCode, driver, selector,
                    startContent, runBackup, selFailure, manualEntered,
                    ending, candidate, verdict >>

NextUpdate == UpdateStep

SpecUpdate == InitUpdate /\ [][NextUpdate]_vars

----------------------------------------------------------------------------
(* The script: __main__, main and the stages it calls                      *)

\* Runs of the script, one after the other.
MaxRuns == 2
\* Largest value of int(time.time()).
MaxTime == 1
\* Most elements one selector yields.
MaxElems == 2
\* len(selectors)
NumSelectors == 6

\* A key of 101 characters with a template escape re.sub rejects ("\x").
KeyBadEscape == << "e", "y", "J", DOT, BACKSLASH, "x", DOT >> \o Pad(MinKeyLen - 6)
\* A key of 101 characters with an escaped backslash ("\\"), which re.sub
\* writes as one backslash.
KeyBackslashes == << "e", "y", "J", DOT, BACKSLASH, BACKSLASH, DOT >> \o Pad(MinKeyLen - 6)
\* 101 characters, 4 parts.
FourParts == << "e", "y", "J", DOT, DOT, DOT >> \o Pad(MinKeyLen - 5)
\* 101 characters, 3 parts, wrong prefix.
WrongPrefix == << "e", "y", "x", DOT, DOT >> \o Pad(MinKeyLen - 4)
\* 99 characters, 3 parts.
ShortKey == << "e", "y", "J", DOT, DOT >> \o Pad(MinKeyLen - 6)

\* .env.local before the first run.
InitialFiles == { Missing,
                  << >>,
                  << "A", LF >>,
                  << "A", CR, LF, KEYNAME, "A", CR, LF >>,
                  << KEYNAME, "A", LF, "A", LF >> }

\* Lines the operator types at the manual prompt.
ManualInputs == { << >>, << SP >> \o Key1 \o << SP >>, KeyBadEscape, KeyBackslashes,
                  FourParts, ShortKey }

\* element.text of the elements the page shows.
ElementTexts == { Key1, << SP >> \o Key2 \o << LF >>, FourParts, WrongPrefix }

\* Exceptions that derive from Exception (KeyboardInterrupt and SystemExit
\* derive from BaseException only).
IsException(e) ==
    e \in { "ImportError", "WebDriverException", "EOFError", "re.error", "OSError" }

fileVars == << envFile, backups >>
harnessVars == << candidate, verdict >>
updVars == << lastKey, prevFile, written >>
selVars == << found, driver, selector >>

Init ==
    /\ envFile \in InitialFiles
    /\ backups = [t \in {} |-> << >>]
    /\ clock = 0 /\ runs = 0 /\ pc = "idle"
    /\ candidate = None /\ verdict = None
    /\ RunInit /\ HistoryInit

\* Time passes.
Tick ==
    /\ clock < MaxTime
    /\ clock' = clock + 1
    /\ UNCHANGED << fileVars, pc, api_key, pending, exitCode, runs,
                    startContent, runBackup, selFailure, manualEntered, ending,
                    harnessVars, updVars, selVars >>

\* python3 extract-supabase-key.py --help
Help ==
    /\ pc \in {"idle", "exited"} /\ runs < MaxRuns
    /\ runs' = runs + 1
    /\ exitCode' = 0 /\ ending' = "help" /\ pc' = "exited"
    /\ api_key' = None /\ pending' = None
    /\ found' = None /\ driver' = "none" /\ selector' = 0
    /\ startContent' = envFile /\ runBackup' = << >> /\ written' = FALSE
    /\ selFailure' = None /\ manualEntered' = FALSE
    /\ lastKey' = None /\ prevFile' = None
    /\ UNCHANGED << fileVars, clock, harnessVars >>

\* python3 extract-supabase-key.py: the try block calls main().
StartMain ==
    /\ pc \in {"idle", "exited"} /\ runs < MaxRuns
    /\ runs' = runs + 1
    /\ exitCode' = None /\ ending' = None /\ pc' = "backup"
    /\ api_key' = None /\ pending' = None
    /\ found' = None /\ driver' = "none" /\ selector' = 0
    /\ startContent' = envFile /\ runBackup' = << >> /\ written' = FALSE
    /\ selFailure' = None /\ manualEntered' = FALSE
    /\ lastKey' = None /\ prevFile' = None
    /\ UNCHANGED << fileVars, clock, harnessVars >>

\* The file create_backup writes: .env.local.backup.<int(time.time())>.
backup_file == clock

\* create_backup's write: backup_file.write_text(ENV_FILE.read_text()).
create_backup ==
    [n \in DOMAIN backups \cup {backup_file} |->
        IF n = backup_file THEN write_text(read_text(envFile)) ELSE backups[n]]

\* create_backup in main: sys.exit(1) when .env.local is missing; the read of
\* an existing file can fail (permissions, undecodable bytes) before any
\* backup is written.
CreateBackup ==
    /\ pc = "backup"
    /\ IF envFile = Missing
       THEN /\ pending' = "SystemExit1" /\ ending' = "missing_env"
            /\ pc' = "toplevel"
            /\ UNCHANGED << backups, runBackup >>
       ELSE \E readable \in BOOLEAN :
               IF readable
               THEN /\ backups' = create_backup
                    /\ runBackup' = << backup_file >>
                    /\ pc' = "sel_import"
                    /\ UNCHANGED << pending, ending >>
               ELSE /\ pending' = "OSError" /\ ending' = "exception"
                    /\ pc' = "toplevel"
                    /\ UNCHANGED << backups, runBackup >>
    /\ UNCHANGED << envFile, clock, api_key, exitCode, runs,
                    startContent, selFailure, manualEntered, harnessVars,
                    updVars, selVars >>

\* from selenium import ...: the package is installed or not.
SeleniumImport ==
    /\ pc = "sel_import"
    /\ \E ok \in BOOLEAN :
          IF ok THEN pc' = "sel_launch" /\ UNCHANGED << pending, selFailure >>
          ELSE pending' = "ImportError" /\ selFailure' = "import" /\ pc' = "sel_except"
    /\ UNCHANGED << fileVars, clock, api_key, exitCode, runs,
                    startContent, runBackup, manualEntered, ending,
                    harnessVars, updVars, selVars >>

\* driver = webdriver.Chrome(options=chrome_options), outside the inner try.
SeleniumLaunch ==
    /\ pc = "sel_launch"
    /\ \E ok \in BOOLEAN :
          IF ok THEN driver' = "open" /\ pc' = "sel_get"
                     /\ UNCHANGED << pending, selFailure >>
          ELSE pending' = "WebDriverException" /\ selFailure' = "launch"
               /\ pc' = "sel_except" /\ UNCHANGED driver
    /\ UNCHANGED << fileVars, clock, api_key, exitCode, runs,
                    startContent, runBackup, manualEntered, ending,
                    harnessVars, updVars, found, selector >>

\* driver.get(DASHBOARD_URL); time.sleep(5); the login check on current_url.
SeleniumNavigate ==
    /\ pc = "sel_get"
    /\ \E outcome \in {"error", "interrupt", "login", "settings"} :
          CASE outcome = "error" ->
                 /\ pending' = "WebDriverException" /\ selFailure' = "navigate"
                 /\ pc' = "sel_finally" /\ UNCHANGED << selector, ending >>
            [] outcome = "interrupt" ->
                 /\ pending' = "KeyboardInterrupt" /\ ending' = "interrupt"
                 /\ pc' = "sel_finally" /\ UNCHANGED << selector, selFailure >>
            [] outcome = "login" ->
                 /\ pc' = "sel_login"
                 /\ UNCHANGED << pending, selFailure, selector, ending >>
            [] outcome = "settings" ->
                 /\ pc' = "sel_scan" /\ selector' = 1
                 /\ UNCHANGED << pending, selFailure, ending >>
    /\ UNCHANGED << fileVars, clock, api_key, exitCode, runs,
                    startContent, runBackup, manualEntered, harnessVars,
                    updVars, found, driver >>

\* input("Press Enter after you've logged in ...")
SeleniumLoginPrompt ==
    /\ pc = "sel_login"
    /\ \E outcome \in {"enter", "eof", "interrupt"} :
          CASE outcome = "enter" ->
                 /\ pc' = "sel_scan" /\ selector' = 1
                 /\ UNCHANGED << pending, selFailure, ending >>
            [] outcome = "eof" ->
                 /\ pending' = "EOFError" /\ selFailure' = "eof_login"
                 /\ pc' = "sel_finally" /\ UNCHANGED << selector, ending >>
            [] outcome = "interrupt" ->
                 /\ pending' = "KeyboardInterrupt" /\ ending' = "interrupt"
                 /\ pc' = "sel_finally" /\ UNCHANGED << selector, selFailure >>
    /\ UNCHANGED << fileVars, clock, api_key, exitCode, runs,
                    startContent, runBackup, manualEntered, harnessVars,
                    updVars, found, driver >>

\* Accepts any long text that starts with 'eyJ' (the part count left out).
accepts_any_parts(text) ==
    startswith(text, EYJ) /\ Len(text) > MinKeyLen

\* The test an element's stripped text must pass to be taken as the key.
accepts(text) ==
    startswith(text, EYJ) /\ Len(text) > MinKeyLen /\ Len(split(text, DOT)) = 3

\* The stripped text of the first element, in DOM order, that is accepted:
\* << text >>, or << >> when no element is.
FirstAccepted(elements) ==
    IF \E i \in DOMAIN elements : accepts(strip(elements[i]))
    THEN << strip(elements[CHOOSE i \in DOMAIN elements :
                      /\ accepts(strip(elements[i]))
                      /\ \A j \in 1..(i-1) : ~accepts(strip(elements[j]))]) >>
    ELSE << >>

\* One turn of "for selector in selectors": find_elements raises (the bare
\* except continues with the next selector) or yields the elements to test.
\* After a match or after the last selector the function returns, and the
\* finally clause runs.
SeleniumScan ==
    /\ pc = "sel_scan"
    /\ \E raises \in BOOLEAN :
       \E hit \in IF raises THEN { << >> }
                  ELSE { FirstAccepted(elements) :
                           elements \in SeqsUpTo(ElementTexts, MaxElems) } :
              /\ found' = IF hit = << >> THEN None ELSE hit[1]
              /\ IF hit # << >>
                 THEN pc' = "sel_finally" /\ UNCHANGED << selector, selFailure >>
                 ELSE IF selector < NumSelectors
                 THEN pc' = "sel_scan" /\ selector' = selector + 1
                      /\ UNCHANGED selFailure
                 ELSE pc' = "sel_finally" /\ selFailure' = "not_found"
                      /\ UNCHANGED selector
    /\ UNCHANGED << fileVars, clock, api_key, pending, exitCode, runs,
                    startContent, runBackup, manualEntered, ending,
                    harnessVars, updVars, driver >>

\* finally: driver.quit().  An exception it raises replaces the pending one
\* and the pending return value.
SeleniumFinally ==
    /\ pc = "sel_finally"
    /\ \E ok \in BOOLEAN :
          IF ok
          THEN /\ driver' = "none"
               /\ UNCHANGED << pending, selFailure, ending >>
               /\ IF pending = None
                  THEN api_key' = found /\ pc' = "after_selenium"
                  ELSE pc' = "sel_except" /\ UNCHANGED api_key
          ELSE /\ pending' = "WebDriverException" /\ selFailure' = "quit"
               /\ ending' = None
               /\ pc' = "sel_except" /\ UNCHANGED << driver, api_key >>
    /\ found' = None /\ selector' = 0
    /\ UNCHANGED << fileVars, clock, exitCode, runs, startContent,
                    runBackup, manualEntered, harnessVars, updVars >>

\* Only the missing package is handled.
CaughtBySelenium_import_only(e) == e = "ImportError"

\* except ImportError / except Exception as e
CaughtBySelenium(e) == e = "ImportError" \/ IsException(e)

\* The except clauses of try_selenium_extraction: print and return None, or
\* let the exception go on to the caller.
SeleniumExcept ==
    /\ pc = "sel_except"
    /\ IF CaughtBySelenium(pending)
       THEN pending' = None /\ api_key' = None /\ pc' = "after_selenium"
       ELSE pc' = "toplevel" /\ UNCHANGED << pending, api_key >>
    /\ UNCHANGED << fileVars, clock, exitCode, runs, startContent,
                    runBackup, selFailure, manualEntered, ending, harnessVars,
                    updVars, selVars >>

\* main: if not api_key: api_key = manual_extraction()
AfterSelenium ==
    /\ pc = "after_selenium"
    /\ IF api_key = None
       THEN manualEntered' = TRUE /\ pc' = "manual"
       ELSE pc' = "final" /\ UNCHANGED manualEntered
    /\ UNCHANGED << fileVars, clock, api_key, pending, exitCode, runs,
                    startContent, runBackup, selFailure, ending, harnessVars,
                    updVars, selVars >>

\* One turn of manual_extraction's loop: a line is read, stripped and
\* validated; a valid one is returned, an invalid one is reported and the
\* prompt comes again.
ManualInput ==
    /\ pc = "manual"
    /\ \E line \in ManualInputs :
          LET key == strip(line)
              v == validate_api_key(key)
          IN  IF v[1]
              THEN api_key' = key /\ pc' = "final"
              ELSE UNCHANGED << api_key, pc >>
    /\ UNCHANGED << fileVars, clock, pending, exitCode, runs, startContent,
                    runBackup, selFailure, manualEntered, ending, harnessVars,
                    updVars, selVars >>

\* input() at the manual prompt raises: end of input, or Ctrl+C.
ManualRaise ==
    /\ pc = "manual"
    /\ \E e \in {"EOFError", "KeyboardInterrupt"} :
          /\ pending' = e
          /\ ending' = IF e = "KeyboardInterrupt" THEN "interrupt" ELSE "exception"
    /\ pc' = "toplevel"
    /\ UNCHANGED << fileVars, clock, api_key, exitCode, runs,
                    startContent, runBackup, selFailure, manualEntered,
                    harnessVars, updVars, selVars >>

\* main: the final validation, sys.exit(1) when it fails.
FinalValidation ==
    /\ pc = "final"
    /\ LET v == validate_api_key(api_key)
       IN  IF v[1]
           THEN pc' = "update" /\ UNCHANGED << pending, ending >>
           ELSE /\ pending' = "SystemExit1" /\ ending' = "final_invalid"
                /\ pc' = "toplevel"
    /\ UNCHANGED << fileVars, clock, api_key, exitCode, runs, startContent,
                    runBackup, selFailure, manualEntered, harnessVars,
                    updVars, selVars >>

\* main: update_env_file(api_key), then the success messages and the return.
Update ==
    /\ pc = "update"
    /\ UpdateEnvFile(api_key, "toplevel", "toplevel")
    /\ ending' = IF pending' = None THEN "success" ELSE "exception"
    /\ UNCHANGED << backups, clock, api_key, exitCode, runs,
                    startContent, runBackup, selFailure, manualEntered,
                    harnessVars, selVars >>

\* An interrupt nothing handles ends the process with status 130.
ExitStatus_unhandled_interrupt(e) ==
    CASE e = None -> 0
      [] e = "KeyboardInterrupt" -> 130
      [] IsException(e) -> 1
      [] e = "SystemExit1" -> 1

\* The end of __main__: main returned (status 0), except KeyboardInterrupt
\* (sys.exit(0)), except Exception (sys.exit(1)); SystemExit passes both
\* clauses and ends the process with its own code.
ExitStatus(e) ==
    CASE e = None -> 0
      [] e = "KeyboardInterrupt" -> 0
      [] IsException(e) -> 1
      [] e = "SystemExit1" -> 1

TopLevel ==
    /\ pc = "toplevel"
    /\ exitCode' = ExitStatus(pending)
    /\ pc' = "exited"
    /\ UNCHANGED << fileVars, clock, api_key, pending, runs,
                    startContent, runBackup, selFailure, manualEntered, ending,
                    harnessVars, updVars, selVars >>

Next ==
    \/ Tick \/ Help \/ StartMain \/ CreateBackup
    \/ SeleniumImport \/ SeleniumLaunch \/ SeleniumNavigate \/ SeleniumLoginPrompt
    \/ SeleniumScan \/ SeleniumFinally \/ SeleniumExcept \/ AfterSelenium
    \/ ManualInput \/ ManualRaise \/ FinalValidation \/ Update \/ TopLevel

Spec == Init /\ [][Next]_vars

----------------------------------------------------------------------------
(* Lines of a file                                                         *)

\* str.splitlines on "\n": no last empty piece, no line in the empty text.
Lines(text) ==
    IF text = << >> THEN << >>
    ELSE LET p == split(text, LF)
         IN  IF p[Len(p)] = << >> THEN SubSeq(p, 1, Len(p) - 1) ELSE p

\* The line assigns the target variable: NAME= after optional indentation.
AssignsTarget(line) == startswith(lstrip(line), << KEYNAME >>)

\* The indentation of a line.
Indent(line) == SubSeq(line, 1, Len(line) - Len(lstrip(line)))

----------------------------------------------------------------------------
(* Claims about validate_api_key                                           *)

Rules(s) == << s # << >>, startswith(s, EYJ), contains(s, DOT),
               Len(split(s, DOT)) = 3, Len(s) >= MinKeyLen >>

RuleMsgs == << MsgEmpty, MsgPrefix, MsgDots, MsgParts, MsgShort >>

FirstFailing(s) == CHOOSE i \in 1..5 : ~Rules(s)[i] /\ \A j \in 1..(i-1) : Rules(s)[j]

\* C6: validate_api_key(s) is valid iff s is non-empty, starts with 'eyJ',
\* holds a '.', splits into exactly 3 parts on '.' and has at least 100
\* characters; an invalid s gets the reason of the first rule it fails, in
\* that order.
C6_ValidIffAllRules ==
    pc = "validated" =>
        /\ verdict[1] = (\A i \in 1..5 : Rules(candidate)[i])
        /\ ~verdict[1] => verdict[2] = RuleMsgs[FirstFailing(candidate)]
        /\ verdict[1] => verdict[2] = MsgValid

\* A candidate of exactly 100 characters was found valid.
C6_Witness ==
    pc = "validated" /\ verdict[1] /\ Len(candidate) = MinKeyLen

\* C7 as stated: a candidate that starts with 'eyJ' and does not split into
\* exactly 3 parts (1, 2, 4 or more) fails with the "exactly 3 parts" reason.
C7_AnyPartCountGivesPartsReason ==
    (pc = "validated" /\ startswith(candidate, EYJ) /\ Len(split(candidate, DOT)) # 3)
        => verdict = << FALSE, MsgParts >>

\* C7 amended: a candidate that starts with 'eyJ' and splits into 2, 4 or
\* more parts fails with the "exactly 3 parts" reason; one with a single part
\* (no '.') fails with the "should contain dots" reason.
C7_PartsReasonWhenDotted ==
    (pc = "validated" /\ startswith(candidate, EYJ) /\ Len(split(candidate, DOT)) # 3)
        => verdict = << FALSE, IF Len(split(candidate, DOT)) = 1 THEN MsgDots ELSE MsgParts >>

\* A short candidate 'eyJ' with two parts was refused for its part count.
C7_Witness ==
    /\ pc = "validated" /\ startswith(candidate, EYJ)
    /\ Len(split(candidate, DOT)) = 2 /\ Len(candidate) < MinKeyLen
    /\ verdict = << FALSE, MsgParts >>

----------------------------------------------------------------------------
(* Claims about update_env_file                                            *)

\* C1: when the file holds a line assigning the target variable, the update
\* turns each such line into NAME="<new key>" and leaves every other line as
\* it was, in content and position.
C1_OnlyTargetLineChanges ==
    (written /\ \E i \in DOMAIN Lines(prevFile) : AssignsTarget(Lines(prevFile)[i]))
        => LET old == Lines(prevFile)
               new == Lines(envFile)
           IN  /\ Len(new) = Len(old)
               /\ \A i \in DOMAIN old :
                      new[i] = IF AssignsTarget(old[i])
                               THEN Indent(old[i]) \o replacement(lastKey)
                               ELSE old[i]

\* C2: after an update at most one line of the file assigns the target
\* variable, whatever the file held before.
C2_AtMostOneAssignment ==
    written => Cardinality({ i \in DOMAIN Lines(envFile) :
                               AssignsTarget(Lines(envFile)[i]) }) <= 1

\* C3: when no line matches the assignment pattern, the update appends
\* exactly one line, the assignment of the new key, to the prior content with
\* its trailing whitespace stripped.
C3_AppendsOneLine ==
    (written /\ ~re_search(prevFile))
        => Lines(envFile) = Lines(rstrip(prevFile)) \o << replacement(lastKey) >>

----------------------------------------------------------------------------
(* Claims about the run of the script                                      *)

\* C4: once create_backup has returned, and so whenever the update stage has
\* written .env.local, the backup this run created exists and holds the
\* bytes .env.local held when the run started; no later step changes it.
C4_BackupHoldsOriginal ==
    /\ written => runBackup # << >>
    /\ runBackup # << >> =>
          /\ runBackup[1] \in DOMAIN backups
          /\ backups[runBackup[1]] = startContent

\* What does hold of the backup: it is made before the write and it keeps the
\* decoded text of the original (line ends normalised to "\n").
BackupHoldsDecodedText ==
    /\ written => runBackup # << >>
    /\ runBackup # << >> =>
          /\ runBackup[1] \in DOMAIN backups
          /\ backups[runBackup[1]] = write_text(read_text(startContent))

\* C5: every create_backup on an existing .env.local creates one new backup
\* file and leaves the backups of earlier calls as they were.
C5_EachBackupIsNew ==
    [][(pc = "backup" /\ pc' = "sel_import") =>
          /\ Cardinality(DOMAIN backups') = Cardinality(DOMAIN backups) + 1
          /\ \A t \in DOMAIN backups : backups'[t] = backups[t]]_vars

\* C8: after any failure inside try_selenium_extraction (package missing,
\* browser launch, navigation, driver.quit, end of input at the login
\* prompt) or a scan that found nothing, the function returns None and the
\* run goes on with manual_extraction: it reaches neither the final
\* validation nor the top-level handlers without having entered it.
C8_SeleniumFailuresDegrade ==
    selFailure # None =>
        /\ pc = "after_selenium" => (api_key = None /\ pending = None)
        /\ pc \in {"manual", "final", "update", "toplevel", "exited"} => manualEntered

\* driver.quit() failed, the browser is still open, and the run is at the
\* manual prompt.
C8_Witness ==
    selFailure = "quit" /\ pc = "manual" /\ driver = "open"

\* C9: a run that has ended has status 0 after a completed update, --help or
\* an operator interrupt, and status 1 after a missing .env.local (with no
\* backup made), a failed final validation or any other exception; there is
\* no other status.
C9_ExitCodes ==
    pc = "exited" =>
        /\ exitCode \in {0, 1}
        /\ ending \in {"success", "help", "interrupt", "missing_env",
                       "final_invalid", "exception"}
        /\ ending \in {"success", "help", "interrupt"} => exitCode = 0
        /\ ending \in {"missing_env", "final_invalid", "exception"} => exitCode = 1
        /\ ending = "missing_env" => runBackup = << >>
        /\ ending = "success" <=> written

\* The operator interrupted the manual prompt and the run ended with status 0.
C9_Witness ==
    pc = "exited" /\ ending = "interrupt" /\ manualEntered /\ exitCode = 0

\* C10: the key that reaches the final validation passes it, whether
\* try_selenium_extraction or manual_extraction returned it; the run never
\* ends on "Final validation failed", and .env.local is only written with a
\* key validate_api_key accepts.
C10_FinalValidationPasses ==
    /\ pc = "final" => validate_api_key(api_key)[1]
    /\ ending # "final_invalid"
    /\ written => validate_api_key(lastKey)[1]

\* A key found by the Selenium scan is at the final validation.
C10_Witness ==
    pc = "final" /\ ~manualEntered /\ selFailure = None /\ api_key # None

====
